---- MODULE Spec2Model ----
(***************************************************************************)
(* A model of att.py, the monthly attendance reconciliation script.        *)
(*                                                                         *)
(* Values.  A Timestamp is the tuple <<year, month, day, hour, minute,     *)
(* second>>; a date (a Timestamp at midnight, as in the 'date' columns) is  *)
(* <<year, month, day>>.  A nullable cell is a tuple: <<>> is the missing   *)
(* value (np.NaN, pd.NaT, None), <<v>> a present scalar (a type label, a    *)
(* number of hours).  Names are never missing and are plain strings.       *)
(* A DataFrame is the sequence of its rows (records), in row order; a      *)
(* function that returns Optional[DataFrame] returns None or DF(rows).     *)
(* A formatted text (strftime) is the tuple of the fields it prints, so    *)
(* what the format drops (the year, the seconds) is dropped here too.      *)
(***************************************************************************)
EXTENDS Integers, Sequences, FiniteSets, TLC

VARIABLES
    pc,           \* the last step of main() that completed
    err,          \* the exception that ended the run, "" when none
    HOLIDAYS,     \* conf.HOLIDAYS
    WORKDAYS,     \* conf.WORKDAYS
    files,        \* the source files that exist in the directory
    enddate,      \* the command line's end date, BadDate when it does not parse
    xls_att,      \* the rows of the punch log
    xls_abnormal, \* the rows of the anomaly log
    xls_offwork,  \* the rows of the leave log (type a code, time in days)
    df_att, df_abnormal, df_offwork, df_abn, df_final, df_group,
    args,         \* the arguments of a direct call of make_workdays
    result        \* what that call returned

vars == <<pc, err, HOLIDAYS, WORKDAYS, files, enddate, xls_att, xls_abnormal,
          xls_offwork, df_att, df_abnormal, df_offwork, df_abn, df_final,
          df_group, args, result>>

----------------------------------------------------------------------------
(* Missing values and optional frames *)

NaN == <<>>
NaT == <<>>
NoDate == <<>>
BadDate == <<>>
None == [isNone |-> TRUE]
DF(rows) == [isNone |-> FALSE, rows |-> rows]

----------------------------------------------------------------------------
(* Sequences *)

RECURSIVE Flatten(_)
Flatten(ss) == IF ss = <<>> THEN <<>> ELSE Head(ss) \o Flatten(Tail(ss))

RECURSIVE PickRows(_, _, _)
PickRows(s, keep, i) ==
    IF i > Len(s) THEN <<>>
    ELSE (IF i \in keep THEN <<s[i]>> ELSE <<>>) \o PickRows(s, keep, i + 1)

Range(s) == {s[i] : i \in DOMAIN s}

SeqsUpTo(S, n) == UNION {[1..k -> S] : k \in 0..n}

----------------------------------------------------------------------------
(* The calendar of pandas Timestamps *)

IsLeap(y) == (y % 4 = 0 /\ y % 100 # 0) \/ y % 400 = 0

daysinmonth(y, m) ==
    IF m = 2 THEN (IF IsLeap(y) THEN 29 ELSE 28)
    ELSE IF m \in {4, 6, 9, 11} THEN 30 ELSE 31

RECURSIVE DaysBeforeMonth(_, _)
DaysBeforeMonth(y, m) ==
    IF m = 1 THEN 0 ELSE DaysBeforeMonth(y, m - 1) + daysinmonth(y, m - 1)

\* The proleptic Gregorian day number of a date (0001-01-01 is day 1).
Ordinal(d) ==
    LET y == d[1] - 1
    IN  365 * y + (y \div 4) - (y \div 100) + (y \div 400)
          + DaysBeforeMonth(d[1], d[2]) + d[3]

\* Timestamp.dayofweek: Monday is 0, Sunday is 6.
dayofweek(d) == (Ordinal(d) + 6) % 7

\* date + timedelta(days=1)
AddDay(d) ==
    IF d[3] < daysinmonth(d[1], d[2]) THEN <<d[1], d[2], d[3] + 1>>
    ELSE IF d[2] < 12 THEN <<d[1], d[2] + 1, 1>>
    ELSE <<d[1] + 1, 1, 1>>

At(d, t) == <<d[1], d[2], d[3], t[1], t[2], t[3]>>

\* pd.date_range(f'{year}-{month}', periods=days_of_month)
date_range(year, month) ==
    [i \in 1..daysinmonth(year, month) |-> <<year, month, i>>]

make_workdays_holiday_wins(year, month, max_date) ==
    LET days == date_range(year, month)
        skip(d) == \/ (dayofweek(d) >= 5 /\ d \notin WORKDAYS) \/ (d \in HOLIDAYS)
                   \/ (max_date # NoDate) /\ (Ordinal(d) > Ordinal(max_date))
    IN  PickRows(days, {i \in DOMAIN days : ~skip(days[i])}, 1)

make_workdays(year, month, max_date) ==
    LET days == date_range(year, month)
        skip(d) == \/ (d \notin WORKDAYS) /\ ((dayofweek(d) >= 5) \/ (d \in HOLIDAYS))
                   \/ (max_date # NoDate) /\ (Ordinal(d) > Ordinal(max_date))
    IN  PickRows(days, {i \in DOMAIN days : ~skip(days[i])}, 1)

RECURSIVE next_workday(_)
next_workday(date) ==
    LET curr == AddDay(date)
    IN  IF dayofweek(curr) < 5 THEN curr ELSE next_workday(curr)

RECURSIVE get_next_workday(_, _)
get_next_workday(currdate, days) ==
    IF days = 0 THEN currdate
    ELSE next_workday(get_next_workday(currdate, days - 1))

----------------------------------------------------------------------------
(* Source readers *)

\* conf.HOLIDAY_TYPE: the leave-type code -> its label
HOLIDAY_TYPE == [c \in {"9700", "9100"} |-> IF c = "9700" THEN "shijia" ELSE "peixun"]

\* findfile_byname(...) is None
findfile_byname(find_str) == find_str \in files

read_att_info == IF ~findfile_byname("att") THEN None ELSE DF(xls_att)

\* math.ceil(time / 8)
ceil8(time) == (time + 7) \div 8

keep_duplicates(df) == df

\* df.drop_duplicates(): the first of each group of equal rows is kept
drop_duplicates(df) ==
    PickRows(df, {i \in DOMAIN df : \A j \in 1..(i - 1) : df[j] # df[i]}, 1)

\* The rows appended for the rows of df with time > 8
appended_rows(df) ==
    LET df_1 == SelectSeq(df, LAMBDA row : row.time # NaN /\ row.time[1] > 8)
        extra(row) == [j \in 1..(ceil8(row.time[1]) - 1) |->
                          [row EXCEPT !.date = get_next_workday(row.date, j),
                                      !.time = NaN]]
    IN  Flatten([i \in DOMAIN df_1 |-> extra(df_1[i])])

\* read_abnormal_info on the rows of the file
split_abnormal(df) == drop_duplicates(df \o appended_rows(df))

read_abnormal_info ==
    IF ~findfile_byname("abnormal") THEN None ELSE DF(split_abnormal(xls_abnormal))

\* read_offwork_info on the rows of the file: days to hours, code to label
convert_offwork(df) ==
    [i \in DOMAIN df |-> [name |-> df[i].name,
                          date |-> df[i].date,
                          type |-> <<HOLIDAY_TYPE[df[i].type]>>,
                          time |-> <<df[i].time * 8>>]]

read_offwork_info ==
    IF ~findfile_byname("offwork") THEN None ELSE DF(convert_offwork(xls_offwork))

----------------------------------------------------------------------------
(* The reconciliation engine *)

\* df['date'].max()
MaxDate(df) ==
    CHOOSE d \in {df[i].date : i \in DOMAIN df} :
        \A i \in DOMAIN df : Ordinal(df[i].date) <= Ordinal(d)

\* df['name'].drop_duplicates()
Names(df) == drop_duplicates([i \in DOMAIN df |-> df[i].name])

general_blank_dataframe(end, df) ==
    LET max_date == IF end # BadDate THEN end ELSE MaxDate(df)
        names == Names(df)
        days == make_workdays(max_date[1], max_date[2], max_date)
    IN  Flatten([i \in DOMAIN names |->
                   [j \in DOMAIN days |-> [name |-> names[i], date |-> days[j]]]])

\* pd.concat([df_abnormal, df_offwork], sort=False): None objects are dropped
\* silently; the call raises ValueError when all of them are None.
concat(a, b) ==
    DF((IF a = None THEN <<>> ELSE a.rows) \o (IF b = None THEN <<>> ELSE b.rows))

\* pd.merge(left, right, how='left', on=['name', 'date']): the left rows in
\* their order, each once per matching right row (in the right's order), or
\* once with missing values when no right row matches.
merge(left, right, na) ==
    Flatten([i \in DOMAIN left |->
        LET m == SelectSeq(right, LAMBDA r : r.name = left[i].name
                                             /\ r.date = left[i].date)
            cols(r) == [c \in (DOMAIN r) \ {"name", "date"} |-> r[c]]
        IN  IF m = <<>> THEN <<left[i] @@ na>>
            ELSE [j \in DOMAIN m |-> left[i] @@ cols(m[j])]])

\* strftime('%m/%d-%H:%M') and strftime('%m/%d')
strftime_mdHM(ts) == <<ts[2], ts[3], ts[4], ts[5]>>
strftime_md(ts) == <<ts[2], ts[3]>>

\* row.onduty == row.offduty: NaT equals nothing, itself included
ts_eq(a, b) == a # NaT /\ b # NaT /\ a = b

\* NaT.hour and NaT.minute are nan: every comparison with them is False
general_chidao_no_suppress(row) ==
    IF ts_eq(row.onduty, row.offduty) THEN NaN
    ELSE IF row.onduty # NaT
            /\ (row.onduty[4] > 9 \/ (row.onduty[4] = 9 /\ row.onduty[5] > 0))
         THEN strftime_mdHM(row.onduty)
    ELSE IF row.offduty # NaT /\ row.offduty[4] < 18
         THEN strftime_mdHM(row.offduty)
    ELSE NaN

general_chidao_early_first(row) ==
    IF row.type # NaN THEN NaN
    ELSE IF ts_eq(row.onduty, row.offduty) THEN NaN
    ELSE IF row.offduty # NaT /\ row.offduty[4] < 18
         THEN strftime_mdHM(row.offduty)
    ELSE IF row.onduty # NaT
            /\ (row.onduty[4] > 9 \/ (row.onduty[4] = 9 /\ row.onduty[5] > 0))
         THEN strftime_mdHM(row.onduty)
    ELSE NaN

general_chidao(row) ==
    IF row.type # NaN THEN NaN
    ELSE IF ts_eq(row.onduty, row.offduty) THEN NaN
    ELSE IF row.onduty # NaT
            /\ (row.onduty[4] > 9 \/ (row.onduty[4] = 9 /\ row.onduty[5] > 0))
         THEN strftime_mdHM(row.onduty)
    ELSE IF row.offduty # NaT /\ row.offduty[4] < 18
         THEN strftime_mdHM(row.offduty)
    ELSE NaN

general_abnormal_noon_inclusive(row) ==
    IF row.type # NaN THEN NaN
    ELSE IF row.onduty = NaT \/ row.offduty = NaT
         THEN strftime_md(row.date) \o <<"quantianka">>
    ELSE IF row.onduty = row.offduty
         THEN IF row.onduty[4] <= 12
              THEN strftime_md(row.onduty) \o <<"xiabanka">>
              ELSE strftime_md(row.onduty) \o <<"shangbanka">>
    ELSE NaN

general_abnormal(row) ==
    IF row.type # NaN THEN NaN
    ELSE IF row.onduty = NaT \/ row.offduty = NaT
         THEN strftime_md(row.date) \o <<"quantianka">>
    ELSE IF row.onduty = row.offduty
         THEN IF row.onduty[4] < 12
              THEN strftime_md(row.onduty) \o <<"xiabanka">>
              ELSE strftime_md(row.onduty) \o <<"shangbanka">>
    ELSE NaN

----------------------------------------------------------------------------
(* The report writer's aggregation *)

\* The dtype of a column that df.apply(f, axis=1) built from f's results:
\* float64 when every result is np.NaN, object as soon as one is a str.
is_float64(column) == \A i \in DOMAIN column : column[i] = NaN

\* x not in (np.NaN, None).  Membership in a tuple is identity, then ==.  An
\* object column holds the np.NaN object that f returned, which the test
\* recognises; a float64 column hands out a fresh nan, which is neither
\* identical nor equal (nan != nan) to np.NaN, and passes the test.
not_in_nan_none(x, float64) == x # NaN \/ float64

\* sep.join(stat) raises TypeError when an item is not a str
joinable(stat) == \A i \in DOMAIN stat : stat[i] # NaN

RECURSIVE join(_, _)
join(sep, stat) ==
    IF Len(stat) <= 1 THEN stat
    ELSE <<Head(stat), sep>> \o join(sep, Tail(stat))

stat_of(column, float64) ==
    SelectSeq(column, LAMBDA x : not_in_nan_none(x, float64))

\* df_data.groupby('name'): the rows of one name, in the table's order
group_rows(df_data, name) == SelectSeq(df_data, LAMBDA r : r.name = name)

chidao_column(df) == [i \in DOMAIN df |-> df[i].chidao]
abn_column(df) == [i \in DOMAIN df |-> df[i].abn]

general_stat(df, chidao_float64, abn_float64) ==
    [chidao |-> join(<<"\n">>, stat_of(chidao_column(df), chidao_float64)),
     abn |-> join(<<";">>, stat_of(abn_column(df), abn_float64))]

\* Whether _general_stat returns for every group
stat_ok(df_data) ==
    \A r \in Range(df_data) :
        /\ joinable(stat_of(chidao_column(group_rows(df_data, r.name)),
                            is_float64(chidao_column(df_data))))
        /\ joinable(stat_of(abn_column(group_rows(df_data, r.name)),
                            is_float64(abn_column(df_data))))

\* df_group: the summary, indexed by name
group_apply(df_data) ==
    [name \in {r.name : r \in Range(df_data)} |->
        general_stat(group_rows(df_data, name),
                     is_float64(chidao_column(df_data)),
                     is_float64(abn_column(df_data)))]

----------------------------------------------------------------------------
(* main(): general_final_info, then write_to_excel *)

Frames == <<df_att, df_abnormal, df_offwork, df_abn, df_final, df_group>>
Inputs == <<HOLIDAYS, WORKDAYS, files, enddate, xls_att, xls_abnormal, xls_offwork>>
Call == <<args, result>>

ReadAtt ==
    /\ pc = "start" /\ args = <<>>
    /\ df_att' = read_att_info
    /\ pc' = "read_att_info"
    /\ UNCHANGED <<err, df_abnormal, df_offwork, df_abn, df_final, df_group,
                   Inputs, Call>>

ReadAbnormal ==
    /\ pc = "read_att_info"
    /\ df_abnormal' = read_abnormal_info
    /\ pc' = "read_abnormal_info"
    /\ UNCHANGED <<err, df_att, df_offwork, df_abn, df_final, df_group,
                   Inputs, Call>>

ReadOffwork ==
    /\ pc = "read_abnormal_info"
    /\ df_offwork' = read_offwork_info
    /\ pc' = "read_offwork_info"
    /\ UNCHANGED <<err, df_att, df_abnormal, df_abn, df_final, df_group,
                   Inputs, Call>>

\* df['name'] raises TypeError when read_att_info returned None
BlankDataframe ==
    /\ pc = "read_offwork_info"
    /\ IF df_att = None
       THEN pc' = "failed" /\ err' = "TypeError" /\ UNCHANGED df_final
       ELSE /\ df_final' = DF(general_blank_dataframe(enddate, df_att.rows))
            /\ pc' = "general_blank_dataframe" /\ UNCHANGED err
    /\ UNCHANGED <<df_att, df_abnormal, df_offwork, df_abn, df_group, Inputs, Call>>

Concat ==
    /\ pc = "general_blank_dataframe"
    /\ IF df_abnormal = None /\ df_offwork = None
       THEN pc' = "failed" /\ err' = "ValueError" /\ UNCHANGED df_abn
       ELSE /\ df_abn' = concat(df_abnormal, df_offwork)
            /\ pc' = "concat" /\ UNCHANGED err
    /\ UNCHANGED <<df_att, df_abnormal, df_offwork, df_final, df_group, Inputs, Call>>

MergeAtt ==
    /\ pc = "concat"
    /\ df_final' = DF(merge(df_final.rows, df_att.rows,
                            [onduty |-> NaT, offduty |-> NaT]))
    /\ pc' = "merge_att"
    /\ UNCHANGED <<err, df_att, df_abnormal, df_offwork, df_abn, df_group,
                   Inputs, Call>>

MergeAbn ==
    /\ pc = "merge_att"
    /\ df_final' = DF(merge(df_final.rows, df_abn.rows,
                            [type |-> NaN, time |-> NaN]))
    /\ pc' = "merge_abn"
    /\ UNCHANGED <<err, df_att, df_abnormal, df_offwork, df_abn, df_group,
                   Inputs, Call>>

Chidao ==
    /\ pc = "merge_abn"
    /\ df_final' = DF([i \in DOMAIN df_final.rows |->
                          df_final.rows[i]
                            @@ [chidao |-> general_chidao(df_final.rows[i])]])
    /\ pc' = "chidao"
    /\ UNCHANGED <<err, df_att, df_abnormal, df_offwork, df_abn, df_group,
                   Inputs, Call>>

Abn ==
    /\ pc = "chidao"
    /\ df_final' = DF([i \in DOMAIN df_final.rows |->
                          df_final.rows[i]
                            @@ [abn |-> general_abnormal(df_final.rows[i])]])
    /\ pc' = "general_final_info"
    /\ UNCHANGED <<err, df_att, df_abnormal, df_offwork, df_abn, df_group,
                   Inputs, Call>>

WriteToExcel ==
    /\ pc = "general_final_info"
    /\ IF stat_ok(df_final.rows)
       THEN /\ df_group' = DF(group_apply(df_final.rows))
            /\ pc' = "done" /\ UNCHANGED err
       ELSE pc' = "failed" /\ err' = "TypeError: join" /\ UNCHANGED df_group
    /\ UNCHANGED <<df_att, df_abnormal, df_offwork, df_abn, df_final, Inputs, Call>>

Next ==
    \/ ReadAtt
    \/ ReadAbnormal
    \/ ReadOffwork
    \/ BlankDataframe
    \/ Concat
    \/ MergeAtt
    \/ MergeAbn
    \/ Chidao
    \/ Abn
    \/ WriteToExcel

\* A direct call of make_workdays(year, month, max_date)
CallMakeWorkdays ==
    /\ pc = "start" /\ args # <<>>
    /\ result' = make_workdays(args[1], args[2], args[3])
    /\ pc' = "make_workdays"
    /\ UNCHANGED <<err, Frames, Inputs, args>>

NextCalendar == CallMakeWorkdays

----------------------------------------------------------------------------
(* Inputs *)

MaxAttRows == 2
MaxAbnormalRows == 2
MaxOffworkRows == 2

Dec(d) == <<2019, 12, d>>

InitRun ==
    /\ pc = "start" /\ err = ""
    /\ df_att = None /\ df_abnormal = None /\ df_offwork = None
    /\ df_abn = None /\ df_final = None /\ df_group = None
    /\ result = <<>>

AttRow(name, date, on, off) ==
    [name |-> name, date |-> date,
     onduty |-> IF on = NaT THEN NaT ELSE At(date, on),
     offduty |-> IF off = NaT THEN NaT ELSE At(date, off)]

ExcRow(name, date, type, time) ==
    [name |-> name, date |-> date, type |-> type, time |-> time]

AllFiles == {"att", "abnormal", "offwork"}

\* The punch log has one row per employee and date (its earliest and latest scan)
OneRowPerDay(s) ==
    \A i, j \in DOMAIN s : (s[i].name = s[j].name /\ s[i].date = s[j].date) => i = j

\* The whole run: which files exist, the end date, a small roster
AttRows ==
    {AttRow(n, Dec(d), p[1], p[2]) :
        n \in {"A", "B"}, d \in {2, 3},
        p \in {<<<<9, 15, 0>>, <<18, 30, 0>>>>, <<<<8, 0, 0>>, <<8, 0, 0>>>>}}
AbnormalRows == {ExcRow("A", Dec(2), <<"peixun">>, <<t>>) : t \in {4, 16}}
OffworkRows == {ExcRow("A", Dec(2), "9100", 1)}

Init ==
    /\ InitRun /\ args = <<>>
    /\ HOLIDAYS = {} /\ WORKDAYS = {}
    /\ files \in SUBSET AllFiles
    /\ xls_att \in IF "att" \in files
                   THEN {s \in SeqsUpTo(AttRows, MaxAttRows) : s # <<>> /\ OneRowPerDay(s)}
                   ELSE {<<>>}
    /\ enddate \in IF xls_att = <<>> THEN {Dec(2), Dec(3)}
                   ELSE {Dec(2), Dec(3), BadDate}
    /\ xls_abnormal \in IF "abnormal" \in files
                        THEN SeqsUpTo(AbnormalRows, 1) ELSE {<<>>}
    /\ xls_offwork \in IF "offwork" \in files
                       THEN SeqsUpTo(OffworkRows, 1) ELSE {<<>>}

Spec == Init /\ [][Next]_vars

\* Flag derivation: one employee, the punches of one day vary over the times
\* of day around 09:00, 12:00 and 18:00; the next day has no punch row
Times ==
    {<<8, 0, 0>>, <<8, 20, 53>>, <<9, 0, 0>>, <<9, 0, 30>>, <<9, 1, 0>>,
     <<9, 15, 0>>, <<11, 59, 59>>, <<12, 0, 0>>, <<13, 30, 0>>, <<17, 59, 59>>,
     <<18, 0, 0>>, <<18, 4, 51>>, <<18, 30, 0>>}

SecondOfDay(t) == 3600 * t[1] + 60 * t[2] + t[3]

\* onduty is the earliest scan of the day and offduty the latest
PunchPairs ==
    {p \in (Times \cup {NaT}) \X (Times \cup {NaT}) :
        (p[1] # NaT /\ p[2] # NaT) => SecondOfDay(p[1]) <= SecondOfDay(p[2])}

InitFlags ==
    /\ InitRun /\ args = <<>>
    /\ HOLIDAYS = {} /\ WORKDAYS = {}
    /\ files = AllFiles
    /\ enddate = Dec(3)
    /\ \E p \in PunchPairs : xls_att = <<AttRow("A", Dec(2), p[1], p[2])>>
    /\ xls_abnormal \in {<<>>, <<ExcRow("A", Dec(2), <<"peixun">>, <<4>>)>>}
    /\ xls_offwork \in {<<>>, <<ExcRow("A", Dec(2), "9700", 1)>>}

SpecFlags == InitFlags /\ [][Next]_vars

\* Duration splitting: the anomaly and leave rows vary, on a Thursday and a
\* Friday, with durations up to three days
SplitAbnormalRows ==
    {ExcRow("A", Dec(d), <<"peixun">>, t) :
        d \in {5, 6}, t \in {NaN, <<8>>, <<16>>, <<17>>}}
SplitOffworkRows ==
    {ExcRow("A", Dec(5), "9100", 2), ExcRow("A", Dec(6), "9100", 1)}

InitSplit ==
    /\ InitRun /\ args = <<>>
    /\ HOLIDAYS = {} /\ WORKDAYS = {}
    /\ files = AllFiles
    /\ enddate = Dec(10)
    /\ xls_att = <<AttRow("A", Dec(5), <<9, 15, 0>>, <<18, 30, 0>>)>>
    /\ xls_abnormal \in SeqsUpTo(SplitAbnormalRows, MaxAbnormalRows)
    /\ xls_offwork \in SeqsUpTo(SplitOffworkRows, MaxOffworkRows)

SpecSplit == InitSplit /\ [][Next]_vars

\* Calendar generation: the month, the configuration and max_date vary
Months == {<<2019, 12>>, <<2020, 1>>, <<2020, 2>>}
MaxDates ==
    {NoDate, <<2019, 12, 31>>, <<2020, 1, 1>>, <<2020, 1, 19>>, <<2020, 1, 24>>,
     <<2020, 2, 15>>}
HolidayDates == {<<2020, 1, 1>>, <<2020, 1, 24>>, <<2020, 1, 19>>}
ExtraWorkdays == {<<2020, 1, 19>>, <<2020, 1, 24>>, <<2020, 2, 1>>}

InitCalendar ==
    /\ InitRun
    /\ files = {} /\ enddate = BadDate
    /\ xls_att = <<>> /\ xls_abnormal = <<>> /\ xls_offwork = <<>>
    /\ HOLIDAYS \in SUBSET HolidayDates
    /\ WORKDAYS \in SUBSET ExtraWorkdays
    /\ \E ym \in Months, md \in MaxDates : args = <<ym[1], ym[2], md>>

SpecCalendar == InitCalendar /\ [][NextCalendar]_vars

----------------------------------------------------------------------------
(* Properties *)

\* write_to_excel was called (general_final_info returned) and it ended
Written == pc = "done" \/ (pc = "failed" /\ err = "TypeError: join")
\* general_final_info returned the reconciled table
Returned == pc = "general_final_info" \/ Written
\* the rows of df_final carry the chidao column
HasChidao == pc = "chidao" \/ Returned

RunMaxDate == IF enddate # BadDate THEN enddate ELSE MaxDate(xls_att)
Roster == {r.name : r \in Range(xls_att)}
Workdays == make_workdays(RunMaxDate[1], RunMaxDate[2], RunMaxDate)

\* C1: the reconciled table that general_final_info returns has exactly one
\* row per (name, date) key of the grid, |Roster| x |Workdays| rows in all,
\* whatever the punch and exception records are.
C1_OneRowPerGridKey ==
    Returned =>
        /\ Len(df_final.rows) = Cardinality(Roster) * Len(Workdays)
        /\ \A n \in Roster, i \in DOMAIN Workdays :
              Cardinality({k \in DOMAIN df_final.rows :
                              /\ df_final.rows[k].name = n
                              /\ df_final.rows[k].date = Workdays[i]}) = 1

\* Dates compared as calendar dates: year, then month, then day
DateLe(a, b) ==
    \/ a[1] < b[1]
    \/ a[1] = b[1] /\ a[2] < b[2]
    \/ a[1] = b[1] /\ a[2] = b[2] /\ a[3] <= b[3]

MonthDates(y, m) == {<<y, m, i>> : i \in 1..daysinmonth(y, m)}

\* The dates the calendar contract includes
IsWorkday(d, max_date) ==
    /\ d \in WORKDAYS \/ (dayofweek(d) \in 0..4 /\ d \notin HOLIDAYS)
    /\ max_date = NoDate \/ DateLe(d, max_date)

\* C2: make_workdays(year, month, max_date) returns, in ascending order and
\* each once, exactly the dates of the month that are an extra workday or a
\* Monday-Friday that is no holiday, and are not after max_date when one is
\* given; so the result with max_date is a subset of the result without it.
C2_WorkdaysOfMonth ==
    pc = "make_workdays" =>
        /\ \A i, j \in DOMAIN result :
              i < j => (result[i] # result[j] /\ DateLe(result[i], result[j]))
        /\ Range(result) =
              {d \in MonthDates(args[1], args[2]) : IsWorkday(d, args[3])}
        /\ Range(result) \subseteq Range(make_workdays(args[1], args[2], NoDate))

\* An extra workday on a weekend is in, one that is also a holiday is in, a
\* weekday holiday is out, and max_date cut a workday off.
C2_Witness ==
    /\ pc = "make_workdays"
    /\ \E d \in Range(result) : dayofweek(d) >= 5
    /\ \E d \in Range(result) : d \in HOLIDAYS
    /\ \E d \in MonthDates(args[1], args[2]) :
          dayofweek(d) < 5 /\ d \in HOLIDAYS /\ d \notin Range(result)
    /\ args[3] # NoDate
    /\ Range(result) # Range(make_workdays(args[1], args[2], NoDate))

\* The records the readers take from the two exception files
ExceptionRecords == Range(xls_abnormal) \cup Range(convert_offwork(xls_offwork))

\* e is the k-th Monday-Friday date after d
KthWeekdayAfter(d, e, k) ==
    /\ dayofweek(e) < 5
    /\ Cardinality({o \in (Ordinal(d) + 1)..Ordinal(e) : (o + 6) % 7 < 5}) = k

\* ceil(t / 8)
CeilEighth(t) == CHOOSE n \in 0..t : 8 * n >= t /\ 8 * (n - 1) < t

\* C3: every exception record, anomaly or leave, of more than 8 hours is in
\* the exception stream with its date and duration, followed by
\* ceil(hours/8) - 1 records of the same name and type with no duration on
\* the next Monday-Friday dates; shorter records are in the stream as they are.
C3_LongExceptionsAreSplit ==
    df_abn # None =>
        \A r \in ExceptionRecords :
            /\ r \in Range(df_abn.rows)
            /\ (r.time # NaN /\ r.time[1] > 8) =>
                  \A k \in 1..(CeilEighth(r.time[1]) - 1) :
                      \E x \in Range(df_abn.rows) :
                          /\ x.name = r.name /\ x.type = r.type /\ x.time = NaN
                          /\ KthWeekdayAfter(r.date, x.date, k)

\* One of the conditions of a late flag, as the contract words it: the
\* time of day is later than 09:00
LaterThan0900(ts) == ts # NaT /\ SecondOfDay(<<ts[4], ts[5], ts[6]>>) > 9 * 3600
\* ... and as the flag is printed, to the minute: 09:01 or later
LaterThan0900ToTheMinute(ts) == ts # NaT /\ 60 * ts[4] + ts[5] > 9 * 60
EarlierThan1800(ts) == ts # NaT /\ SecondOfDay(<<ts[4], ts[5], ts[6]>>) < 18 * 3600
MonthDayHourMinute(ts) == <<ts[2], ts[3], ts[4], ts[5]>>

\* C4 as claimed: lateOrEarlyFlag is null with an exception type, null when
\* onDuty equals offDuty, else the on-duty time when its time of day is later
\* than 09:00, else the off-duty time when earlier than 18:00, else null.
C4_LateOrEarly_AsClaimed ==
    HasChidao =>
        \A r \in Range(df_final.rows) :
            r.chidao =
                IF r.type # NaN THEN NaN
                ELSE IF r.onduty = r.offduty THEN NaN
                ELSE IF LaterThan0900(r.onduty) THEN MonthDayHourMinute(r.onduty)
                ELSE IF EarlierThan1800(r.offduty) THEN MonthDayHourMinute(r.offduty)
                ELSE NaN

\* C4 amended: the same order, the on-duty time being late when its hour and
\* minute are later than 09:00 (09:01:00 or later; the seconds do not count).
C4_LateOrEarly ==
    HasChidao =>
        \A r \in Range(df_final.rows) :
            r.chidao =
                IF r.type # NaN THEN NaN
                ELSE IF r.onduty = r.offduty THEN NaN
                ELSE IF LaterThan0900ToTheMinute(r.onduty)
                     THEN MonthDayHourMinute(r.onduty)
                ELSE IF EarlierThan1800(r.offduty) THEN MonthDayHourMinute(r.offduty)
                ELSE NaN

\* A row whose on-duty time is within the first minute after 09:00 and whose
\* off-duty time is early: the flag shows the off-duty time
C4_Witness ==
    /\ HasChidao
    /\ \E r \in Range(df_final.rows) :
          /\ r.type = NaN
          /\ r.onduty = At(Dec(2), <<9, 0, 30>>)
          /\ r.offduty = At(Dec(2), <<17, 59, 59>>)
          /\ r.chidao = <<12, 2, 17, 59>>

\* The three markers of a missing punch
FullDay(d) == <<d[2], d[3], "quantianka">>
MissingOffDuty(ts) == <<ts[2], ts[3], "xiabanka">>
MissingOnDuty(ts) == <<ts[2], ts[3], "shangbanka">>
BeforeNoon(ts) == SecondOfDay(<<ts[4], ts[5], ts[6]>>) < 12 * 3600

C6_ExceptionSuppressesFlags ==
    Returned =>
        \A r \in Range(df_final.rows) :
            r.type # NaN => (r.chidao = NaN /\ r.abn = NaN)

\* A row with an exception type whose punches alone would raise both flags'
\* conditions: late on duty, and a single scan
C6_Witness ==
    /\ Returned
    /\ \E r \in Range(df_final.rows) :
          /\ r.type # NaN
          /\ LaterThan0900ToTheMinute(r.onduty)
          /\ r.onduty = r.offduty
          /\ r.chidao = NaN /\ r.abn = NaN

\* C7: with one of the three source files missing the run aborts: it returns
\* no reconciled table and writes no report.
C7_MissingSourceAborts ==
    files # AllFiles => (~Returned /\ df_group = None)

\* C8: splitting the output of read_abnormal_info again (expansion of the
\* rows over 8 hours, then removal of duplicates) changes nothing.
C8_SplitIdempotent ==
    df_abnormal # None => split_abnormal(df_abnormal.rows) = df_abnormal.rows

\* The first pass appended rows, and the second pass has rows to append again
C8_Witness ==
    /\ df_abnormal # None
    /\ Len(df_abnormal.rows) > Len(xls_abnormal)
    /\ appended_rows(df_abnormal.rows) # <<>>

NotNull(column) == SelectSeq(column, LAMBDA x : x # NaN)

\* C9: the aggregation gives one summary record per name of the reconciled
\* table, its fields the non-null flags of the name's rows in table order,
\* joined by a line break and by a semicolon; the rows of a name are in
\* ascending date order.
C9_OneSummaryPerEmployee ==
    Written =>
        /\ df_group # None
        /\ DOMAIN df_group.rows = {r.name : r \in Range(df_final.rows)}
        /\ \A n \in DOMAIN df_group.rows :
              LET rows == group_rows(df_final.rows, n)
              IN  /\ df_group.rows[n].chidao
                        = join(<<"\n">>, NotNull(chidao_column(rows)))
                  /\ df_group.rows[n].abn
                        = join(<<";">>, NotNull(abn_column(rows)))
                  /\ \A i, j \in DOMAIN rows :
                        i < j => DateLe(rows[i].date, rows[j].date)

\* C10: the exception stream joined onto the grid has no two equal rows.
C10_NoDuplicateExceptions ==
    df_abn # None =>
        \A i, j \in DOMAIN df_abn.rows :
            df_abn.rows[i] = df_abn.rows[j] => i = j

====
